---- MODULE Spec2Model ----
(***************************************************************************)
(* Resilience core of the API Linter MCP server: the RetryManager          *)
(* (src/src/config/config.ts), the CircuitBreaker                          *)
(* (src/src/circuitbreaker/circuitBreaker.ts) and their composition in     *)
(* ApiLinterHTTPClient (src/src/utils/apiLinterHttpClient.ts):             *)
(*   circuitBreaker.execute(() => retryManager.executeWithRetry(op))       *)
(*                                                                         *)
(* Time is a discrete clock `now` (one unit = one millisecond of           *)
(* Date.now()).  Node runs the handlers on one thread: every action below  *)
(* is one run-to-completion slice of the event loop, from one suspension   *)
(* point (await of the HTTP request, await of the retry delay, a timer)    *)
(* to the next.  A timer callback runs no earlier than its due time and    *)
(* possibly later.                                                         *)
(*                                                                         *)
(* Spec is the guarded composition, with delays in whole clock units.      *)
(* RetrySpec is the RetryManager called on its own, one call at a time,    *)
(* with options in milliseconds and jitter on or off.                      *)
(***************************************************************************)
EXTENDS Integers, FiniteSets, Sequences, Bags, TLC

\* ---------------------------------------------------------------- bounds
\* concurrent guarded calls (tool calls in progress at once)
NumCalls == 2
\* guarded calls started in one behaviour
MaxCalls == 4
\* last value of the clock
MaxTime == 3
\* maxRetries ranges over 0..RetriesBound
RetriesBound == 2
\* failureThreshold ranges over 1..ThresholdBound
ThresholdBound == 2
\* options.resetTimeout, scaled to clock units
ResetTimeout == 2
\* options.initialDelayMs, scaled to clock units
InitialDelayMs == 1
\* options.maxDelayMs, scaled to clock units
MaxDelayMs == 2
\* options.backoffFactor
BackoffFactor == 2
\* Math.random() takes the values r / RandomSteps, r in 0..RandomSteps-1
RandomSteps == 4
\* options.checkIntervalMs of the HealthCheckService, in clock units
CheckIntervalMs == 2
\* getHealth / forceCheck calls made in one behaviour
MaxHealthCalls == 3
\* executeWithRetry calls made in one behaviour of RetrySpec
RetryRuns == 1

Tools == {"listRules", "validateSpec"}
ErrorKinds == {"AxiosError", "Error"}
NoHandle == -1
\* an error value: its class, whether its message contains the text
\* 'Circuit breaker', and the loop index of the attempt that raised it
\* (-1: not raised by the operation)
NoError == [kind |-> "none", mentionsBreaker |-> FALSE, attempt |-> -1]
\* nothing has been returned to a caller yet
NoOutcome == [n |-> 0, tool |-> "none", result |-> "none", opCount |-> 0,
              lastError |-> NoError, delays |-> <<>>, value |-> -1,
              report |-> "none"]
\* values of initialDelayMs and maxDelayMs when the RetryManager is run on
\* its own
DelayValues == {1, 3, 100, 5000}
Randoms == 0..(RandomSteps - 1)
\* the values Math.random() can give calculateDelay, which draws one only
\* when options.jitter is set
RandomDraws(opts) == IF opts.jitter THEN Randoms ELSE {0}

VARIABLES
    now,              \* Date.now(), counted from the start of the process
    env,              \* process.env, the variables that set the retries and
                      \*   the failure threshold
    health,           \* the HealthCheckService and what it has done so far:
                      \*   apiLinterStatus, lastCheckTime  its fields
                      \*   lastProbeAt  start time of its last check
                      \*   lastCheck    how the check completed last ended
                      \*   getProbes    checks started by getHealth
                      \*   probes       checks started in all
                      \*   requests     getHealth / forceCheck calls made
    healthOutcome,    \* what getHealth / forceCheck returned last
    maxRetries,       \* RetryManager.options.maxRetries
    retryOptions,     \* the other RetryManager.options: initialDelayMs,
                      \*   maxDelayMs, backoffFactor, jitter
    failureThreshold, \* CircuitBreaker.options.failureThreshold
    circuitBreaker,   \* the CircuitBreaker instance of the client and its timers
    calls,            \* the guarded calls in progress, a bag of records:
                      \*   pc         "inflight" (request awaited) or "delay"
                      \*   tool       the client method called
                      \*   attempt    loop variable of executeWithRetry
                      \*   lastError  lastError of executeWithRetry
                      \*   delayUntil due time of the retry delay awaited
                      \*   opCount    requests sent to the linter so far
                      \*   admittedIn breaker state when the open check passed
                      \*   delays     the delays passed to delay() so far
                      \*   origin     who called: "tool", "getHealth" or
                      \*              "forceCheck" ("direct" in RetrySpec)
                      \*   since      the now that getHealth read on entry
                      \*              (-1 for every other caller)
    outcome,          \* what the call completed last gave its caller:
                      \*   result     "ok", "error" (the operation failed) or
                      \*              "circuit_open" (execute short-circuited)
                      \*   opCount    requests the call sent
                      \*   lastError  the error execute rejected with
                      \*   delays     the retry delays the call waited
                      \*   value      loop index of the attempt whose result
                      \*              was returned
                      \*   report     what handleError made of the error
    started,          \* guarded calls started so far
    consecFails,      \* guarded calls failed since the last successful one
    anySucc,          \* some guarded call has succeeded
    lastFailAt,       \* time of the last failed guarded call
    lastFailWasTrial, \* that failure found the breaker HALF_OPEN
    openedAt,         \* time of the last transition to OPEN
    quiet,            \* no call admitted or completed since that transition
    rejectedSinceOpen, \* a call was rejected as circuit-open since then
    failsSinceClose   \* guarded calls failed since the last successful
                      \* HALF_OPEN trial, -1 before any

vars == <<now, env, health, healthOutcome,
          maxRetries, retryOptions, failureThreshold, circuitBreaker,
          calls, outcome,
          started, consecFails, anySucc, lastFailAt, lastFailWasTrial,
          openedAt, quiet, rejectedSinceOpen, failsSinceClose>>

\* --------------------------------------------------------------- config
\* the variables read by config.ts and the two named in the README and in
\* docker-compose.yml
EnvNames == {"APILINTER_MAX_RETRIES", "APILINTER_FAILURE_THRESHOLD",
             "RETRY_COUNT", "CIRCUIT_BREAKER_THRESHOLD"}
\* the variable is not set
Unset == "<unset>"
Digits == <<"0", "1", "2", "3", "4", "5", "6", "7", "8", "9">>
\* parseInt(s, 10) of a one-digit numeral
parseInt(s) == (CHOOSE i \in 1..Len(Digits) : Digits[i] = s) - 1
\* process.env.NAME || dflt: an unset or empty variable gives the default
orDefault(v, dflt) == IF v = Unset \/ v = "" THEN dflt ELSE v

\* config.apiLinter.retry.maxRetries and
\* config.apiLinter.circuitBreaker.failureThreshold
loadConfig(e) ==
    [maxRetries |-> parseInt(orDefault(e["APILINTER_MAX_RETRIES"], "3")),
     failureThreshold |->
        parseInt(orDefault(e["APILINTER_FAILURE_THRESHOLD"], "5"))]

\* the environment that configures the given values
envFor(retries, threshold) ==
    [n \in EnvNames |->
        IF n = "APILINTER_MAX_RETRIES" THEN Digits[retries + 1]
        ELSE IF n = "APILINTER_FAILURE_THRESHOLD" THEN Digits[threshold + 1]
        ELSE Unset]

\* ------------------------------------------------------- CircuitBreaker
\* clearTimeout(handle): cancels the callback if it is still pending
clearTimeout(b) ==
    [b EXCEPT !.pending = @ \ {b.circuitResetTimeout}]

\* variant: nextAttempt is set only when the breaker trips from CLOSED
transitionToState_firstTripOnly(b, newState, t) ==
    IF newState = b.state THEN b
    ELSE IF newState = "OPEN"
         THEN LET c == IF b.circuitResetTimeout # NoHandle
                       THEN clearTimeout(b) ELSE b
              IN [c EXCEPT !.state = "OPEN",
                           !.nextAttempt = IF b.state = "CLOSED"
                                           THEN t + ResetTimeout ELSE @,
                           !.pending = @ \cup {t + ResetTimeout},
                           !.circuitResetTimeout = t + ResetTimeout]
         ELSE [b EXCEPT !.state = newState]

\* variant: entering OPEN schedules no transition to HALF_OPEN
transitionToState_noTimer(b, newState, t) ==
    IF newState = b.state THEN b
    ELSE IF newState = "OPEN"
         THEN LET c == IF b.circuitResetTimeout # NoHandle
                       THEN clearTimeout(b) ELSE b
              IN [c EXCEPT !.state = "OPEN",
                           !.nextAttempt = t + ResetTimeout]
         ELSE [b EXCEPT !.state = newState]

\* variant: a new timer is scheduled without cancelling the one before
transitionToState_noClear(b, newState, t) ==
    IF newState = b.state THEN b
    ELSE IF newState = "OPEN"
         THEN [b EXCEPT !.state = "OPEN",
                        !.nextAttempt = t + ResetTimeout,
                        !.pending = @ \cup {t + ResetTimeout},
                        !.circuitResetTimeout = t + ResetTimeout]
         ELSE [b EXCEPT !.state = newState]

transitionToState(b, newState, t) ==
    IF newState = b.state THEN b
    ELSE IF newState = "OPEN"
         THEN LET c == IF b.circuitResetTimeout # NoHandle
                       THEN clearTimeout(b) ELSE b
              IN [c EXCEPT !.state = "OPEN",
                           !.nextAttempt = t + ResetTimeout,
                           !.pending = @ \cup {t + ResetTimeout},
                           !.circuitResetTimeout = t + ResetTimeout]
         ELSE [b EXCEPT !.state = newState]

\* variant: reset() forgets to zero failureCount
reset_keepCount(b, t) ==
    LET c == transitionToState(b, "CLOSED", t)
    IN IF c.circuitResetTimeout # NoHandle
       THEN [clearTimeout(c) EXCEPT !.circuitResetTimeout = NoHandle]
       ELSE c

\* variant: reset() forgets the handle without cancelling the timer
reset_leaksTimer(b, t) ==
    LET z == [b EXCEPT !.failureCount = 0]
        c == transitionToState(z, "CLOSED", t)
    IN [c EXCEPT !.circuitResetTimeout = NoHandle]

reset(b, t) ==
    LET z == [b EXCEPT !.failureCount = 0]
        c == transitionToState(z, "CLOSED", t)
    IN IF c.circuitResetTimeout # NoHandle
       THEN [clearTimeout(c) EXCEPT !.circuitResetTimeout = NoHandle]
       ELSE c

\* variant: the threshold comparison is strict
recordFailure_strict(b, threshold, t) ==
    LET c == [b EXCEPT !.failureCount = @ + 1]
    IN IF c.state = "HALF_OPEN" THEN transitionToState(c, "OPEN", t)
       ELSE IF c.failureCount > threshold THEN transitionToState(c, "OPEN", t)
       ELSE c

recordFailure(b, threshold, t) ==
    LET c == [b EXCEPT !.failureCount = @ + 1]
    IN IF c.state = "HALF_OPEN" THEN transitionToState(c, "OPEN", t)
       ELSE IF c.failureCount >= threshold THEN transitionToState(c, "OPEN", t)
       ELSE c

\* variant: the time check treats nextAttempt itself as too early
executeCheck_inclusive(b, t) ==
    IF b.state = "OPEN"
    THEN IF t <= b.nextAttempt
         THEN [admit |-> FALSE, cb |-> b]
         ELSE [admit |-> TRUE, cb |-> transitionToState(b, "HALF_OPEN", t)]
    ELSE [admit |-> TRUE, cb |-> b]

\* variant: the open check is missing, every call reaches fn
executeCheck_admitAll(b, t) ==
    [admit |-> TRUE, cb |-> b]

\* variant: a call that finds the breaker HALF_OPEN repeats the transition
\* and restarts the window
executeCheck_repeats(b, t) ==
    IF b.state = "OPEN"
    THEN IF t < b.nextAttempt
         THEN [admit |-> FALSE, cb |-> b]
         ELSE [admit |-> TRUE, cb |-> transitionToState(b, "HALF_OPEN", t)]
    ELSE IF b.state = "HALF_OPEN"
         THEN [admit |-> TRUE, cb |-> [b EXCEPT !.nextAttempt = t]]
         ELSE [admit |-> TRUE, cb |-> b]

\* variant: the rejection is recorded as a failure
executeCheck_rejectionRecorded(b, t) ==
    IF b.state = "OPEN"
    THEN IF t < b.nextAttempt
         THEN [admit |-> FALSE, cb |-> [b EXCEPT !.failureCount = @ + 1]]
         ELSE [admit |-> TRUE, cb |-> transitionToState(b, "HALF_OPEN", t)]
    ELSE [admit |-> TRUE, cb |-> b]

\* execute, lines 64-80: the open check made before fn is called
executeCheck(b, t) ==
    IF b.state = "OPEN"
    THEN IF t < b.nextAttempt
         THEN [admit |-> FALSE, cb |-> b]
         ELSE [admit |-> TRUE, cb |-> transitionToState(b, "HALF_OPEN", t)]
    ELSE [admit |-> TRUE, cb |-> b]

\* variant: every success resets the breaker
executeSuccess_alwaysReset(b, t) ==
    IF b.state # "OPEN" THEN reset(b, t) ELSE b

\* variant: a successful trial closes the breaker without reset()
executeSuccess_justClose(b, t) ==
    IF b.state = "HALF_OPEN" THEN transitionToState(b, "CLOSED", t) ELSE b

\* execute, lines 84-91: fn resolved
executeSuccess(b, t) ==
    IF b.state = "HALF_OPEN" THEN reset(b, t) ELSE b

\* execute, lines 71-76: the error of the short-circuit,
\* new Error(`Circuit breaker [${this.name}] is open`)
circuitOpenError ==
    [kind |-> "Error", mentionsBreaker |-> TRUE, attempt |-> -1]

\* the callback given to setTimeout in transitionToState
timerCallback(b, due, t) ==
    transitionToState([b EXCEPT !.pending = @ \ {due}], "HALF_OPEN", t)

\* --------------------------------------------------------- RetryManager
RECURSIVE pow(_, _)
pow(x, n) == IF n = 0 THEN 1 ELSE x * pow(x, n - 1)

min(a, b) == IF a < b THEN a ELSE b

\* variant: the cap of maxDelayMs is missing
backoff_uncapped(opts, attempt) ==
    opts.initialDelayMs * pow(opts.backoffFactor, attempt - 1)

\* calculateDelay, lines 201-206: exponential backoff capped at maxDelayMs
backoff(opts, attempt) ==
    min(opts.initialDelayMs * pow(opts.backoffFactor, attempt - 1),
        opts.maxDelayMs)

\* variant: the jitter factor ranges over [0.5, 1.5)
jittered_wide(delay, r) ==
    (delay * (2 * RandomSteps + 4 * r)) \div (4 * RandomSteps)

\* calculateDelay, lines 211-212, with Math.random() = r / RandomSteps:
\* Math.floor(delay * (0.75 + Math.random() * 0.5))
jittered(delay, r) ==
    (delay * (3 * RandomSteps + 2 * r)) \div (4 * RandomSteps)

calculateDelay(opts, attempt, r) ==
    IF opts.jitter THEN jittered(backoff(opts, attempt), r)
    ELSE backoff(opts, attempt)

\* variant: the first retry is made at once
delayBefore_fromSecond(attempt) == attempt > 1

\* line 140: a delay is awaited before every attempt but the first
delayBefore(attempt) == attempt > 0

\* variant: only the first error is kept
catchError_keepFirst(lastError, error) ==
    IF lastError.kind = "none" THEN error ELSE lastError

\* line 170: lastError = error
catchError(lastError, error) == error

\* variant: the promise of delay() is not awaited
delayElapsed_notAwaited(c, t) == TRUE

\* delay, lines 223-225: the setTimeout of the delay has fired
delayElapsed(c, t) == t >= c.delayUntil

\* variant: the loop gives up one attempt early
exhausted_early(a, retries) == a + 1 >= retries

\* line 180: the failed attempt was the last one
exhausted(a, retries) == a >= retries

\* the operation rejects on attempt a with an error of class k; neither an
\* AxiosError nor a TypeError of the response transformation has a message
\* that contains 'Circuit breaker'
opError(k, a) == [kind |-> k, mentionsBreaker |-> FALSE, attempt |-> a]

\* executeWithRetry is entered: the state of its loop before attempt 0
newCall(tl, st, who, t) ==
    [pc |-> "start", tool |-> tl, attempt |-> 0, lastError |-> NoError,
     delayUntil |-> 0, opCount |-> 0, admittedIn |-> st, delays |-> <<>>,
     origin |-> who, since |-> t]

\* lines 137-159: the loop body of attempt c.attempt up to its first await,
\* either the delay (r is the value of Math.random()) or the operation
enterAttempt(c, opts, t, r) ==
    IF delayBefore(c.attempt)
    THEN LET d == calculateDelay(opts, c.attempt, r)
         IN [c EXCEPT !.pc = "delay", !.delayUntil = t + d,
                      !.delays = Append(@, d)]
    ELSE [c EXCEPT !.pc = "inflight", !.opCount = @ + 1]

\* lines 169-187 and the loop increment: the attempt failed and was not the
\* last
failedAttempt(c, error) ==
    [c EXCEPT !.attempt = @ + 1, !.lastError = catchError(@, error)]

\* line 159 after the awaited delay: the operation is invoked again
afterDelay(c) ==
    [c EXCEPT !.pc = "inflight", !.delayUntil = 0, !.opCount = @ + 1]

\* ---------------------------------------------- guarded call composition
\* variant: the composition is inverted, every failed attempt reaches the
\* breaker
guardedFailure_perAttempt(b, a, retries, threshold, t) ==
    recordFailure(b, threshold, t)

\* listRules / validateSpec: the catch block of execute runs only when
\* executeWithRetry throws, that is when the failed attempt was the last
guardedFailure(b, a, retries, threshold, t) ==
    IF exhausted(a, retries) THEN recordFailure(b, threshold, t) ELSE b

\* variant: every error that is no AxiosError is taken for circuit-open
handleError_anyError(error) ==
    IF error.kind = "AxiosError" THEN "Failed"
    ELSE "Service unavailable"

\* handleError: an AxiosError becomes an ApiLinterServerAuthError or an
\* ApiLinterServerApiError ("Failed": the three status branches are one
\* here), an Error whose message contains 'Circuit breaker' becomes
\* "Service unavailable", anything else "Network error"
handleError(error) ==
    IF error.kind = "AxiosError" THEN "Failed"
    ELSE IF error.mentionsBreaker THEN "Service unavailable"
    ELSE "Network error"

\* --------------------------------------------------- HealthCheckService
\* lastCheckTime = 0 is the epoch; the clock of the model starts with the
\* process, more than checkIntervalMs after it
Epoch == 0 - CheckIntervalMs

\* the service as constructed, nothing done yet
NewHealth ==
    [apiLinterStatus |-> "unhealthy", lastCheckTime |-> Epoch,
     lastProbeAt |-> Epoch, lastCheck |-> "none", getProbes |-> 0,
     probes |-> 0, requests |-> 0]
NoHealthOutcome ==
    [n |-> 0, call |-> "none", rejected |-> FALSE, status |-> "none",
     apiLinter |-> "none", probed |-> FALSE]

\* getHealth, line 74
needsCheck(h, t) == t - h.lastCheckTime >= CheckIntervalMs

\* variant: a check rejected by the open breaker leaves the status as it was
checkApiLinterHealth_keepsStatus(h, res) ==
    [h |-> [h EXCEPT !.apiLinterStatus =
                        IF res = "ok" THEN "ok"
                        ELSE IF res = "circuit_open" THEN @
                        ELSE "unhealthy"],
     threw |-> FALSE]

\* variant: the error of getLintingRules is thrown on
checkApiLinterHealth_rethrows(h, res) ==
    [h |-> [h EXCEPT !.apiLinterStatus =
                        IF res = "ok" THEN "ok" ELSE "unhealthy"],
     threw |-> res # "ok"]

\* checkApiLinterHealth: res is how getLintingRules ended, "ok" or with an
\* error ("error" of the linter call, "circuit_open" of the breaker); the
\* result is the service afterwards and whether the method threw
checkApiLinterHealth(h, res) ==
    [h |-> [h EXCEPT !.apiLinterStatus =
                        IF res = "ok" THEN "ok" ELSE "unhealthy"],
     threw |-> FALSE]

determineOverallStatus(h) ==
    IF h.apiLinterStatus = "unhealthy" THEN "unhealthy" ELSE "ok"

\* getHealth, lines 75-81, after the awaited check chk: t is the now read
\* when getHealth was entered
getHealthChecked(chk, t) ==
    IF chk.threw THEN chk.h ELSE [chk.h EXCEPT !.lastCheckTime = t]

\* forceCheck after the awaited check chk, at time t
forceChecked(chk, t) ==
    IF chk.threw THEN chk.h ELSE [chk.h EXCEPT !.lastCheckTime = t]

\* getHealth, lines 83-98: the HealthStatus returned
healthStatus(h, who, didProbe) ==
    [n |-> 0, call |-> who, rejected |-> FALSE,
     status |-> determineOverallStatus(h), apiLinter |-> h.apiLinterStatus,
     probed |-> didProbe]

\* ------------------------------------------------------------ behaviour
Init ==
    /\ now = 0
    /\ maxRetries \in 0..RetriesBound
    \* the client hands its caller's options to the RetryManager.  The
    \* delays are whole clock units here, so jitter is off: a jittered delay
    \* is within a quarter of the unjittered one, and DelayDone may run late
    \* anyway.  RetrySpec below runs the RetryManager with jitter on and off.
    /\ retryOptions = [initialDelayMs |-> InitialDelayMs,
                       maxDelayMs |-> MaxDelayMs,
                       backoffFactor |-> BackoffFactor, jitter |-> FALSE]
    /\ failureThreshold \in 1..ThresholdBound
    /\ env = envFor(maxRetries, failureThreshold)
    /\ health = NewHealth
    /\ healthOutcome = NoHealthOutcome
    /\ circuitBreaker = [state |-> "CLOSED", failureCount |-> 0,
                         nextAttempt |-> 0, circuitResetTimeout |-> NoHandle,
                         pending |-> {}]
    /\ calls = EmptyBag
    /\ outcome = NoOutcome
    /\ started = 0
    /\ consecFails = 0
    /\ anySucc = FALSE
    /\ lastFailAt = -1
    /\ lastFailWasTrial = FALSE
    /\ openedAt = -1
    /\ quiet = FALSE
    /\ rejectedSinceOpen = FALSE
    /\ failsSinceClose = -1

\* the breaker went to OPEN in this step
Opened == circuitBreaker.state # "OPEN" /\ circuitBreaker'.state = "OPEN"

InProgress == BagToSet(calls)
One(c) == SetToBag({c})

\* the call of c returns to its caller
Return(c, res, err, val, rep) ==
    outcome' = [n |-> outcome.n + 1, tool |-> c.tool, result |-> res,
                opCount |-> c.opCount, lastError |-> err,
                delays |-> c.delays, value |-> val, report |-> rep]

\* the outcome of a health request of kind who whose check chk has ended
HealthReturn(h, who, chk) ==
    healthOutcome' =
       IF who = "getHealth"
       THEN [healthStatus(h, "getHealth", TRUE)
                EXCEPT !.n = healthOutcome.n + 1]
       ELSE [NoHealthOutcome EXCEPT !.n = healthOutcome.n + 1,
                                    !.call = "forceCheck",
                                    !.rejected = chk.threw,
                                    !.probed = TRUE]

\* the check of a health request (kind who, entered at time t) has ended
\* with res: checkApiLinterHealth and the rest of getHealth / forceCheck run
\* on the service h
HealthDone(h, who, t, res) ==
    LET chk == checkApiLinterHealth(h, res)
        h2 == IF who = "getHealth" THEN getHealthChecked(chk, t)
              ELSE forceChecked(chk, now)
    IN /\ health' = [h2 EXCEPT !.lastCheck = res]
       /\ HealthReturn(h2, who, chk)

\* what the completion of a call c with res means to its caller
Completes(c, res) ==
    IF c.origin \in {"getHealth", "forceCheck"}
    THEN HealthDone(health, c.origin, c.since, res)
    ELSE UNCHANGED <<health, healthOutcome>>

\* getHealth keeps the time of its entry in a local; no other caller does
entryTime(who, t) == IF who = "getHealth" THEN t ELSE -1

\* a client method is entered for the caller who: circuitBreaker.execute
\* runs its open check and, when it admits the call, executeWithRetry makes
\* attempt 0 and sends the first request, all before the first await
Enter(tl, who) ==
    /\ BagCardinality(calls) < NumCalls
    /\ started < MaxCalls
    /\ LET r == executeCheck(circuitBreaker, now)
       IN /\ circuitBreaker' = r.cb
          /\ IF r.admit
             THEN /\ \E rnd \in RandomDraws(retryOptions) :
                        calls' = calls (+)
                           One(enterAttempt(newCall(tl, r.cb.state, who, entryTime(who, now)),
                                            retryOptions, now, rnd))
                  /\ UNCHANGED outcome
             ELSE /\ Return(newCall(tl, r.cb.state, who, entryTime(who, now)),
                            "circuit_open", circuitOpenError, -1,
                            handleError(circuitOpenError))
                  /\ UNCHANGED calls
          /\ quiet' = (quiet /\ ~r.admit)
          /\ rejectedSinceOpen' = (rejectedSinceOpen \/ ~r.admit)
    /\ started' = started + 1
    /\ UNCHANGED <<now, env, maxRetries, retryOptions, failureThreshold,
                   consecFails, anySucc,
                   lastFailAt, lastFailWasTrial, openedAt, failsSinceClose>>

\* a tool calls listRules / validateSpec
Call(tl) ==
    /\ Enter(tl, "tool")
    /\ UNCHANGED <<health, healthOutcome>>

\* the request of a call c gets its response: executeWithRetry returns the
\* result and execute takes its success path
OpSucceed ==
  \E c \in InProgress :
    /\ c.pc = "inflight"
    /\ circuitBreaker' = executeSuccess(circuitBreaker, now)
    /\ calls' = calls (-) One(c)
    /\ Return(c, "ok", c.lastError, c.attempt, "none")
    /\ consecFails' = 0
    /\ anySucc' = TRUE
    /\ quiet' = FALSE
    /\ failsSinceClose' = IF circuitBreaker.state = "HALF_OPEN" THEN 0
                          ELSE failsSinceClose
    /\ Completes(c, "ok")
    /\ UNCHANGED env
    /\ UNCHANGED <<now, maxRetries, retryOptions, failureThreshold, started,
                   lastFailAt, lastFailWasTrial, openedAt, rejectedSinceOpen>>

\* the request of a call c fails with an error of kind k: executeWithRetry
\* either waits for the next attempt or throws, and then execute records the
\* failure
OpFail ==
  \E c \in InProgress, k \in ErrorKinds, rnd \in RandomDraws(retryOptions) :
    /\ c.pc = "inflight"
    /\ circuitBreaker' = guardedFailure(circuitBreaker, c.attempt, maxRetries,
                                        failureThreshold, now)
    /\ LET err == opError(k, c.attempt)
           thrown == catchError(c.lastError, err)
       IN IF exhausted(c.attempt, maxRetries)
          THEN /\ calls' = calls (-) One(c)
               /\ Return(c, "error", thrown, -1, handleError(thrown))
               /\ consecFails' = consecFails + 1
               /\ lastFailAt' = now
               /\ lastFailWasTrial' = (circuitBreaker.state = "HALF_OPEN")
               /\ failsSinceClose' = IF failsSinceClose >= 0
                                     THEN failsSinceClose + 1
                                     ELSE failsSinceClose
               /\ quiet' = Opened
               /\ Completes(c, "error")
          ELSE /\ calls' = (calls (-) One(c)) (+)
                              One(enterAttempt(failedAttempt(c, err),
                                               retryOptions, now, rnd))
               /\ quiet' = (IF Opened THEN TRUE ELSE quiet)
               /\ UNCHANGED <<outcome, consecFails, lastFailAt,
                              lastFailWasTrial, failsSinceClose,
                              health, healthOutcome>>
    /\ openedAt' = IF Opened THEN now ELSE openedAt
    /\ rejectedSinceOpen' = (rejectedSinceOpen /\ ~Opened)
    /\ UNCHANGED env
    /\ UNCHANGED <<now, maxRetries, retryOptions, failureThreshold, started,
                   anySucc>>

\* the retry delay of a call c has been waited: the next attempt is made
DelayDone ==
  \E c \in InProgress :
    /\ c.pc = "delay"
    /\ delayElapsed(c, now)
    /\ calls' = (calls (-) One(c)) (+) One(afterDelay(c))
    /\ UNCHANGED <<env, health, healthOutcome>>
    /\ UNCHANGED <<now, maxRetries, retryOptions, failureThreshold,
                   circuitBreaker, outcome,
                   started, consecFails, anySucc, lastFailAt, lastFailWasTrial,
                   openedAt, quiet, rejectedSinceOpen, failsSinceClose>>

\* the scheduled transition to HALF_OPEN runs
TimerFire ==
    /\ \E due \in circuitBreaker.pending :
          /\ due <= now
          /\ circuitBreaker' = timerCallback(circuitBreaker, due, now)
    /\ openedAt' = IF Opened THEN now ELSE openedAt
    /\ quiet' = (IF Opened THEN TRUE ELSE quiet)
    /\ rejectedSinceOpen' = (rejectedSinceOpen /\ ~Opened)
    /\ UNCHANGED <<env, health, healthOutcome>>
    /\ UNCHANGED <<now, maxRetries, retryOptions, failureThreshold, calls,
                   outcome, started,
                   consecFails, anySucc, lastFailAt, lastFailWasTrial,
                   failsSinceClose>>

\* a millisecond passes
Tick ==
    /\ now < MaxTime
    /\ now' = now + 1
    /\ UNCHANGED <<env, health, healthOutcome>>
    /\ UNCHANGED <<maxRetries, retryOptions, failureThreshold, circuitBreaker,
                   calls, outcome,
                   started, consecFails, anySucc, lastFailAt, lastFailWasTrial,
                   openedAt, quiet, rejectedSinceOpen, failsSinceClose>>

Next ==
    \/ \E tl \in Tools : Call(tl)
    \/ OpSucceed
    \/ OpFail
    \/ DelayDone
    \/ TimerFire
    \/ Tick

Spec == Init /\ [][Next]_vars

\* ------------------------------------------- the RetryManager on its own
\* executeWithRetry(fn) called directly, one call at a time, with options
\* given in milliseconds; the breaker is not involved
breakerVars == <<failureThreshold, circuitBreaker, consecFails, anySucc,
                 lastFailAt, lastFailWasTrial, openedAt, quiet,
                 rejectedSinceOpen, failsSinceClose>>

RetryInit ==
    /\ now = 0
    /\ maxRetries \in 0..RetriesBound
    /\ retryOptions \in [initialDelayMs : DelayValues,
                         maxDelayMs : DelayValues,
                         backoffFactor : {BackoffFactor},
                         jitter : BOOLEAN]
    /\ failureThreshold = ThresholdBound
    /\ env = envFor(maxRetries, failureThreshold)
    /\ health = NewHealth
    /\ healthOutcome = NoHealthOutcome
    /\ circuitBreaker = [state |-> "CLOSED", failureCount |-> 0,
                         nextAttempt |-> 0, circuitResetTimeout |-> NoHandle,
                         pending |-> {}]
    /\ calls = EmptyBag
    /\ outcome = NoOutcome
    /\ started = 0
    /\ consecFails = 0
    /\ anySucc = FALSE
    /\ lastFailAt = -1
    /\ lastFailWasTrial = FALSE
    /\ openedAt = -1
    /\ quiet = FALSE
    /\ rejectedSinceOpen = FALSE
    /\ failsSinceClose = -1

\* executeWithRetry is called: attempt 0 runs up to its first await
RetryCall ==
    /\ calls = EmptyBag
    /\ started < RetryRuns
    /\ \E rnd \in RandomDraws(retryOptions) :
          calls' = One(enterAttempt(newCall("operation", "none", "direct", -1),
                                    retryOptions, now, rnd))
    /\ started' = started + 1
    /\ UNCHANGED <<env, health, healthOutcome>>
    /\ UNCHANGED <<now, maxRetries, retryOptions, outcome, breakerVars>>

\* fn resolves: line 168 returns its result
RetryOpSucceed ==
  \E c \in InProgress :
    /\ c.pc = "inflight"
    /\ calls' = calls (-) One(c)
    /\ Return(c, "ok", c.lastError, c.attempt, "none")
    /\ UNCHANGED <<env, health, healthOutcome>>
    /\ UNCHANGED <<now, maxRetries, retryOptions, started, breakerVars>>

\* fn rejects with an error of kind k: the catch block throws or the loop
\* goes on to the next attempt
RetryOpFail ==
  \E c \in InProgress, k \in ErrorKinds, rnd \in RandomDraws(retryOptions) :
    /\ c.pc = "inflight"
    /\ LET err == opError(k, c.attempt)
           thrown == catchError(c.lastError, err)
       IN IF exhausted(c.attempt, maxRetries)
          THEN /\ calls' = calls (-) One(c)
               /\ Return(c, "error", thrown, -1, "none")
          ELSE /\ calls' = (calls (-) One(c)) (+)
                              One(enterAttempt(failedAttempt(c, err),
                                               retryOptions, now, rnd))
               /\ UNCHANGED outcome
    /\ UNCHANGED <<env, health, healthOutcome>>
    /\ UNCHANGED <<now, maxRetries, retryOptions, started, breakerVars>>

\* the awaited delay is over: the next attempt is made
RetryDelayDone ==
  \E c \in InProgress :
    /\ c.pc = "delay"
    /\ delayElapsed(c, now)
    /\ calls' = (calls (-) One(c)) (+) One(afterDelay(c))
    /\ UNCHANGED <<env, health, healthOutcome>>
    /\ UNCHANGED <<now, maxRetries, retryOptions, outcome, started,
                   breakerVars>>

\* time passes up to the due time of the awaited delay
RetryPass ==
  \E c \in InProgress :
    /\ c.pc = "delay"
    /\ now < c.delayUntil
    /\ now' = c.delayUntil
    /\ UNCHANGED <<env, health, healthOutcome>>
    /\ UNCHANGED <<maxRetries, retryOptions, calls, outcome, started,
                   breakerVars>>

RetryNext ==
    \/ RetryCall
    \/ RetryOpSucceed
    \/ RetryOpFail
    \/ RetryDelayDone
    \/ RetryPass

RetrySpec == RetryInit /\ [][RetryNext]_vars

\* ------------------------------------------ the server's health endpoint
\* the health service starts a check: getLintingRules goes down to
\* listRules of the one client, and a call rejected by the breaker ends the
\* check in the same slice
Probe(who) ==
    /\ Enter("listRules", who)
    /\ LET h == [health EXCEPT
                    !.requests = @ + 1,
                    !.probes = @ + 1,
                    !.getProbes = IF who = "getHealth" THEN @ + 1 ELSE @,
                    !.lastProbeAt = IF who = "getHealth" THEN now ELSE @]
       IN IF executeCheck(circuitBreaker, now).admit
          THEN health' = h /\ UNCHANGED healthOutcome
          ELSE HealthDone(h, who, now, "circuit_open")

\* GET /health: getHealth checks the linter when the interval has passed
\* and answers from its fields otherwise
GetHealth ==
    /\ health.requests < MaxHealthCalls
    /\ IF needsCheck(health, now)
       THEN Probe("getHealth")
       ELSE /\ health' = [health EXCEPT !.requests = @ + 1]
            /\ healthOutcome' = [healthStatus(health, "getHealth", FALSE)
                                    EXCEPT !.n = healthOutcome.n + 1]
            /\ UNCHANGED <<now, env, maxRetries, retryOptions,
                           failureThreshold, circuitBreaker, calls, outcome,
                           started, consecFails, anySucc, lastFailAt,
                           lastFailWasTrial, openedAt, quiet,
                           rejectedSinceOpen, failsSinceClose>>

\* forceCheck, called by main at startup
ForceCheck ==
    /\ health.requests < MaxHealthCalls
    /\ Probe("forceCheck")

HealthNext ==
    \/ GetHealth
    \/ ForceCheck
    \/ \E tl \in Tools : Call(tl)
    \/ OpSucceed
    \/ OpFail
    \/ TimerFire
    \/ Tick

\* the server of the health checks: one configuration, so that the
\* interleavings of health requests, tool calls and the timer stay countable
HealthInit ==
    /\ Init
    /\ maxRetries = 0
    /\ failureThreshold = ThresholdBound

HealthSpec == HealthInit /\ [][HealthNext]_vars

\* ----------------------------------------------- the configuration load
\* config.ts is evaluated once, with whatever the environment holds
NotLoaded == 0 - 1
EnvValues == {Unset, "", "1", "2"}

ConfigInit ==
    /\ now = 0
    /\ env \in [EnvNames -> EnvValues]
    /\ maxRetries = NotLoaded
    /\ failureThreshold = NotLoaded
    /\ health = NewHealth
    /\ healthOutcome = NoHealthOutcome
    /\ retryOptions = [initialDelayMs |-> InitialDelayMs,
                       maxDelayMs |-> MaxDelayMs,
                       backoffFactor |-> BackoffFactor, jitter |-> FALSE]
    /\ circuitBreaker = [state |-> "CLOSED", failureCount |-> 0,
                         nextAttempt |-> 0, circuitResetTimeout |-> NoHandle,
                         pending |-> {}]
    /\ calls = EmptyBag
    /\ outcome = NoOutcome
    /\ started = 0
    /\ consecFails = 0
    /\ anySucc = FALSE
    /\ lastFailAt = -1
    /\ lastFailWasTrial = FALSE
    /\ openedAt = -1
    /\ quiet = FALSE
    /\ rejectedSinceOpen = FALSE
    /\ failsSinceClose = -1

LoadConfig ==
    /\ maxRetries = NotLoaded
    /\ maxRetries' = loadConfig(env).maxRetries
    /\ failureThreshold' = loadConfig(env).failureThreshold
    /\ UNCHANGED <<now, env, health, healthOutcome, retryOptions,
                   circuitBreaker, calls, outcome, started, consecFails,
                   anySucc, lastFailAt, lastFailWasTrial, openedAt, quiet,
                   rejectedSinceOpen, failsSinceClose>>

ConfigNext == LoadConfig

ConfigSpec == ConfigInit /\ [][ConfigNext]_vars

TypeOK ==
    /\ now \in 0..MaxTime
    /\ circuitBreaker.state \in {"CLOSED", "OPEN", "HALF_OPEN"}
    /\ BagCardinality(calls) <= NumCalls
    /\ \A c \in InProgress : c.pc \in {"inflight", "delay"}

\* ------------------------------------------------------------ properties
\* steps of a guarded call
CallStep == started' = started + 1
Returns == outcome'.n = outcome.n + 1
\* the records of calls that are new in the next state
New == {c \in BagToSet(calls') : CopiesIn(c, calls') > CopiesIn(c, calls)}
Rejected ==
    /\ CallStep /\ Returns
    /\ outcome'.result = "circuit_open"
    /\ outcome'.opCount = 0
    /\ calls' = calls
Succeeds == ~CallStep /\ Returns /\ outcome'.result = "ok"
Fails == ~CallStep /\ Returns /\ outcome'.result = "error"
RetryStep == ~CallStep /\ ~Returns /\ calls' # calls
\* a request is sent to the linter
Sends == \E c \in New : c.pc = "inflight"

\* C1: for every maxRetries = n >= 0, a call whose operation fails on every
\* invocation, with whatever kind of error, has invoked the operation exactly
\* n+1 times when it rejects, and never more
C1_PermanentFailureAttempts ==
    /\ \A c \in InProgress : c.opCount <= maxRetries + 1
    /\ outcome.result = "error"
          => /\ outcome.opCount = maxRetries + 1
             /\ outcome.lastError.kind \in ErrorKinds

C1_Witness ==
    /\ outcome.result = "error"
    /\ maxRetries = RetriesBound
    /\ outcome.opCount = RetriesBound + 1
    /\ outcome.lastError.kind = "Error"

\* C2: on a fresh breaker, after failureThreshold failed calls and no
\* successful one, a call made before resetTimeout has elapsed since the last
\* of these failures is rejected as circuit-open and sends no request
C2_ThresholdTripsBreaker ==
    [][(/\ CallStep
        /\ consecFails = failureThreshold
        /\ ~anySucc
        /\ now < lastFailAt + ResetTimeout) => Rejected]_vars

C2_Witness ==
    /\ failureThreshold = ThresholdBound
    /\ consecFails = failureThreshold
    /\ ~anySucc
    /\ rejectedSinceOpen
    /\ now < lastFailAt + ResetTimeout
    /\ outcome.result = "circuit_open"
    /\ outcome.opCount = 0

\* C3: when the breaker went to OPEN at time T = openedAt and no call has been
\* admitted or has completed since, a call before T + resetTimeout is rejected
\* without a request, and a call at or after T + resetTimeout sends its
\* request as a HALF_OPEN trial
C3_OpenWindow ==
    [][(CallStep /\ quiet) =>
          IF now < openedAt + ResetTimeout
          THEN Rejected
          ELSE /\ ~Returns
               /\ circuitBreaker'.state = "HALF_OPEN"
               /\ \E c \in New : /\ c.pc = "inflight"
                                 /\ c.opCount = 1
                                 /\ c.admittedIn = "HALF_OPEN"]_vars

C3_Witness ==
    /\ openedAt >= 0
    /\ now >= openedAt + ResetTimeout
    /\ rejectedSinceOpen
    /\ outcome.result = "circuit_open"
    /\ circuitBreaker.state = "HALF_OPEN"
    /\ \E c \in InProgress :
          c.pc = "inflight" /\ c.admittedIn = "HALF_OPEN" /\ c.opCount = 1

\* C4: a CLOSED breaker goes to OPEN only when the last failureThreshold
\* completed calls all failed (failures before a success do not count)
C4_ConsecutiveFailuresOnly ==
    [][(circuitBreaker.state = "CLOSED" /\ circuitBreaker'.state = "OPEN")
          => consecFails' >= failureThreshold]_vars

\* C5: a call that succeeds while the breaker is CLOSED leaves failureCount
\* and the state as they were, and failureCount goes back to 0 only in a
\* step that takes the breaker to CLOSED
C5_ClosedSuccessKeepsCount ==
    [][/\ (Succeeds /\ circuitBreaker.state = "CLOSED")
             => /\ circuitBreaker'.failureCount = circuitBreaker.failureCount
                /\ circuitBreaker'.state = "CLOSED"
       /\ (circuitBreaker.failureCount # 0 /\ circuitBreaker'.failureCount = 0)
             => /\ circuitBreaker.state # "CLOSED"
                /\ circuitBreaker'.state = "CLOSED"]_vars

C5_Witness ==
    /\ outcome.result = "ok"
    /\ consecFails = 0
    /\ openedAt = -1
    /\ circuitBreaker.state = "CLOSED"
    /\ circuitBreaker.failureCount > 0

\* C6: a call that fails while the breaker is HALF_OPEN leaves it OPEN with
\* nextAttempt = now + resetTimeout, and every call made before resetTimeout
\* has elapsed since that failure is rejected without a request
C6_FailedTrialReopens ==
    [][/\ (Fails /\ circuitBreaker.state = "HALF_OPEN")
             => /\ circuitBreaker'.state = "OPEN"
                /\ circuitBreaker'.nextAttempt = now + ResetTimeout
       /\ (/\ CallStep
           /\ lastFailWasTrial
           /\ now < lastFailAt + ResetTimeout) => Rejected]_vars

C6_Witness ==
    /\ lastFailWasTrial
    /\ lastFailAt = openedAt
    /\ rejectedSinceOpen
    /\ outcome.result = "circuit_open"
    /\ circuitBreaker.state = "OPEN"
    /\ circuitBreaker.nextAttempt = lastFailAt + ResetTimeout

\* C7: a call that succeeds while the breaker is HALF_OPEN leaves it CLOSED
\* with failureCount = 0, and from then on the breaker is CLOSED exactly
\* while fewer than failureThreshold calls have failed since
C7_TrialSuccessCloses ==
    [][/\ (Succeeds /\ circuitBreaker.state = "HALF_OPEN")
             => /\ circuitBreaker'.state = "CLOSED"
                /\ circuitBreaker'.failureCount = 0
       /\ failsSinceClose' >= 0
             => (circuitBreaker'.state = "CLOSED"
                    <=> failsSinceClose' < failureThreshold)]_vars

C7_Witness ==
    /\ failsSinceClose = failureThreshold
    /\ circuitBreaker.state = "OPEN"
    /\ circuitBreaker.failureCount = failureThreshold

\* C8: at no time are two requests of calls admitted in HALF_OPEN in flight
\* together
C8_SingleTrialInFlight ==
    LET trials == {c \in InProgress :
                      c.pc = "inflight" /\ c.admittedIn = "HALF_OPEN"}
    IN /\ Cardinality(trials) <= 1
       /\ \A c \in trials : CopiesIn(c, calls) <= 1

C10_NoRequestWhileOpen ==
    [][(circuitBreaker.state = "OPEN" /\ now < openedAt + ResetTimeout)
          => ~Sends]_vars

\* ------------------------------------------ properties of the retry loop
\* the delays handed to delay() so far by the calls in progress and by the
\* call that returned last, each with the number k of its retry
DelaysOf(ds) == {[k |-> k, d |-> ds[k]] : k \in 1..Len(ds)}
Delays == UNION {DelaysOf(c.delays) : c \in InProgress \cup {outcome}}

\* C11: when the operation first succeeds on its j-th invocation (j - 1
\* failures before it, j <= maxRetries + 1), executeWithRetry returns the
\* value of that invocation, the operation has been invoked exactly j times
\* and exactly j - 1 delays were waited, and the call is over: nothing more
\* is invoked or waited for it
C11_FirstSuccessReturns ==
    [][(Returns /\ outcome'.result = "ok") =>
          \E c \in InProgress :
             /\ c.pc = "inflight"
             /\ c.attempt <= maxRetries
             /\ outcome'.value = c.attempt
             /\ outcome'.opCount = c.attempt + 1
             /\ Len(outcome'.delays) = c.attempt
             /\ calls' = calls (-) One(c)]_vars

C11_Witness ==
    /\ outcome.result = "ok"
    /\ maxRetries = RetriesBound
    /\ outcome.opCount = RetriesBound + 1
    /\ Len(outcome.delays) = RetriesBound
    /\ calls = EmptyBag

\* C12: when every attempt fails, executeWithRetry rejects with the error
\* raised by the last, (maxRetries + 1)-th invocation itself
C12_RejectsWithLastError ==
    outcome.result = "error"
       => /\ outcome.opCount = maxRetries + 1
          /\ \E k \in ErrorKinds : outcome.lastError = opError(k, maxRetries)

C12_Witness ==
    /\ outcome.result = "error"
    /\ maxRetries = RetriesBound
    /\ outcome.lastError.attempt = RetriesBound
    /\ outcome.lastError.kind = "AxiosError"

\* C13: with jitter off the delay before retry k is exactly
\* min(initialDelayMs * backoffFactor^(k-1), maxDelayMs); with maxRetries 2,
\* initialDelayMs 100, backoffFactor 2 (maxDelayMs 5000) an operation that
\* fails every time is invoked 3 times with delays of 100 and then 200
C13_DelaysWithoutJitter ==
    ~retryOptions.jitter =>
       /\ \A x \in Delays :
             x.d = min(retryOptions.initialDelayMs
                          * pow(retryOptions.backoffFactor, x.k - 1),
                       retryOptions.maxDelayMs)
       /\ (/\ maxRetries = 2
           /\ retryOptions.initialDelayMs = 100
           /\ retryOptions.backoffFactor = 2
           /\ retryOptions.maxDelayMs = 5000
           /\ outcome.result = "error")
             => /\ outcome.delays = <<100, 200>>
                /\ outcome.opCount = 3

C13_Witness ==
    /\ ~retryOptions.jitter
    /\ maxRetries = 2
    /\ retryOptions.initialDelayMs = 100
    /\ retryOptions.maxDelayMs = 5000
    /\ outcome.result = "error"
    /\ outcome.delays = <<100, 200>>

\* C14: with jitter on or off, no delay waited before a retry is longer
\* than maxDelayMs
C14_DelayAtMostMax ==
    \A x \in Delays : x.d <= retryOptions.maxDelayMs

\* C15 as stated: with jitter on, the delay before retry k lies within
\* [0.75 * c, 1.25 * c] for c = min(initialDelayMs * backoffFactor^(k-1),
\* maxDelayMs)
C15_JitterWithinQuarter ==
    retryOptions.jitter =>
       \A x \in Delays :
          LET c == min(retryOptions.initialDelayMs
                          * pow(retryOptions.backoffFactor, x.k - 1),
                       retryOptions.maxDelayMs)
          IN 3 * c <= 4 * x.d /\ 4 * x.d <= 5 * c

\* C15: with jitter on, the delay before retry k is a whole number of
\* milliseconds within [floor(0.75 * c), 1.25 * c]: the floor can take it
\* below 0.75 * c by less than a millisecond
C15_JitterWithinFlooredQuarter ==
    retryOptions.jitter =>
       \A x \in Delays :
          LET c == min(retryOptions.initialDelayMs
                          * pow(retryOptions.backoffFactor, x.k - 1),
                       retryOptions.maxDelayMs)
          IN /\ x.d \in Nat
             /\ (3 * c) \div 4 <= x.d
             /\ 4 * x.d <= 5 * c

C15_Witness ==
    /\ retryOptions.jitter
    /\ retryOptions.initialDelayMs = 3
    /\ outcome.result = "ok"
    /\ Len(outcome.delays) >= 1
    /\ outcome.delays[1] = 2

\* C16: the attempts of one executeWithRetry call are sequential: the first
\* invocation is made in the step of the call itself, a later invocation is
\* made only by a call whose previous invocation failed and whose delay,
\* counted in full from that failure, is over, and a call never has more
\* than one invocation that has neither resolved nor rejected
C16_AttemptsSequential ==
    [][/\ \A n \in New :
             n.pc = "inflight" =>
                IF n.opCount = 1
                THEN CallStep /\ n.attempt = 0 /\ n.delays = <<>>
                ELSE \E c \in InProgress :
                        /\ c.pc = "delay"
                        /\ n = afterDelay(c)
                        /\ now >= c.delayUntil
       /\ \A n \in New :
             n.pc = "delay" =>
                /\ \E c \in InProgress :
                      c.pc = "inflight" /\ n.attempt = c.attempt + 1
                /\ n.delayUntil = now + n.delays[Len(n.delays)]
       /\ \A c \in BagToSet(calls') :
             /\ c.pc \in {"inflight", "delay"}
             /\ c.opCount - c.attempt = IF c.pc = "inflight" THEN 1 ELSE 0
             /\ Len(c.delays) = c.attempt]_vars

C16_Witness ==
    \E c \in InProgress :
       /\ c.pc = "inflight"
       /\ c.opCount = 2
       /\ c.delays[1] > 0
       /\ now >= c.delays[1]

\* ------------------------------- properties of the guarded composition
\* C17: the breaker is checked before the operation and its retries begin:
\* a call made while the breaker is OPEN and before nextAttempt is rejected
\* in the step of the call, with no request sent and no delay waited, and
\* the retry loop never holds the error of a rejection
C17_RejectionSkipsRetries ==
    [][/\ (/\ CallStep
           /\ circuitBreaker.state = "OPEN"
           /\ now < circuitBreaker.nextAttempt)
             => /\ Rejected
                /\ ~Sends
                /\ outcome'.delays = <<>>
                /\ outcome'.lastError = circuitOpenError
       /\ (Returns /\ outcome'.result = "circuit_open")
             => CallStep /\ outcome'.opCount = 0
       /\ \A c \in BagToSet(calls') : c.lastError # circuitOpenError]_vars

C17_Witness ==
    /\ maxRetries = RetriesBound
    /\ outcome.result = "circuit_open"
    /\ outcome.lastError = circuitOpenError
    /\ outcome.opCount = 0
    /\ outcome.delays = <<>>
    /\ circuitBreaker.state = "OPEN"

C19_OneTimerPending ==
    Cardinality(circuitBreaker.pending) <= 1

C19_Witness ==
    /\ lastFailWasTrial
    /\ circuitBreaker.state = "OPEN"
    /\ lastFailAt = openedAt
    /\ circuitBreaker.pending = {lastFailAt + ResetTimeout}

\* C20: whenever the breaker is not OPEN, no scheduled transition to
\* HALF_OPEN is pending
C20_TimerCancelledOutOfOpen ==
    circuitBreaker.state # "OPEN" => circuitBreaker.pending = {}

\* ------------------------------------------------------- health checks
\* a getHealth or forceCheck call returns in this step
HealthReturns == healthOutcome'.n = healthOutcome.n + 1
\* getHealth starts a check of the linter in this step
GetHealthProbes == health'.getProbes = health.getProbes + 1

\* C21: the linter is checked at most once per checkIntervalMs: a check
\* started by getHealth begins at least checkIntervalMs after the previous
\* one started by getHealth, also when getHealth calls overlap
C21_OneProbePerInterval ==
    [][GetHealthProbes =>
          now - health.lastProbeAt >= CheckIntervalMs]_vars

\* C22: the status getHealth reports is 'ok' exactly when the most recently
\* completed check succeeded and 'unhealthy' otherwise (failed, or none
\* completed yet), the overall status equals the apiLinter status, and
\* forceCheck and getHealth are never rejected
C22_StatusFollowsLastCheck ==
    /\ [](/\ determineOverallStatus(health) = health.apiLinterStatus
          /\ health.apiLinterStatus = "ok" <=> health.lastCheck = "ok")
    /\ [][HealthReturns =>
             /\ ~healthOutcome'.rejected
             /\ healthOutcome'.call = "getHealth" =>
                   /\ healthOutcome'.status \in {"ok", "unhealthy"}
                   /\ healthOutcome'.status = "ok"
                         <=> health'.lastCheck = "ok"
                   /\ healthOutcome'.status = healthOutcome'.apiLinter]_vars

\* a forceCheck whose linter call failed has returned, and so did a getHealth
\* that found the linter down after an earlier successful check
C22_Witness ==
    /\ healthOutcome.call = "getHealth"
    /\ healthOutcome.status = "unhealthy"
    /\ health.lastCheck = "error"
    /\ anySucc
    /\ health.probes > health.getProbes

\* ------------------------------------------------------- configuration
\* C23: the number of retry attempts of the server's client is the value of
\* RETRY_COUNT (3 when unset) and the breaker's failure threshold is the
\* value of CIRCUIT_BREAKER_THRESHOLD (5 when unset)
C23_ReadmeNamesConfigure ==
    maxRetries # NotLoaded =>
       /\ maxRetries = parseInt(orDefault(env["RETRY_COUNT"], "3"))
       /\ failureThreshold =
             parseInt(orDefault(env["CIRCUIT_BREAKER_THRESHOLD"], "5"))

\* -------------------------------------------------- breaker, interleavings
\* the breaker goes to HALF_OPEN in this step
HalfOpens ==
    circuitBreaker.state # "HALF_OPEN" /\ circuitBreaker'.state = "HALF_OPEN"

\* C24: with calls interleaved on a breaker that is OPEN with nextAttempt
\* passed, the transition to HALF_OPEN is made once: it acts only from OPEN
\* at or after nextAttempt and changes neither failureCount, nextAttempt nor
\* the timer handle, and a call that finds the breaker HALF_OPEN is admitted
\* and leaves the breaker as it is
C24_TransitionOnce ==
    [][/\ HalfOpens =>
             /\ circuitBreaker.state = "OPEN"
             /\ now >= circuitBreaker.nextAttempt
             /\ circuitBreaker'.nextAttempt = circuitBreaker.nextAttempt
             /\ circuitBreaker'.failureCount = circuitBreaker.failureCount
             /\ circuitBreaker'.circuitResetTimeout =
                   circuitBreaker.circuitResetTimeout
       /\ (CallStep /\ circuitBreaker.state = "HALF_OPEN") =>
             /\ circuitBreaker' = circuitBreaker
             /\ \E c \in New : c.admittedIn = "HALF_OPEN"]_vars

\* two calls are in flight that both found nextAttempt passed, the timer not
\* yet run: the first made the transition, the second found HALF_OPEN
C24_Witness ==
    /\ circuitBreaker.state = "HALF_OPEN"
    /\ circuitBreaker.pending # {}
    /\ now > circuitBreaker.nextAttempt
    /\ BagCardinality(calls) = 2
    /\ \A c \in InProgress : c.admittedIn = "HALF_OPEN" /\ c.pc = "inflight"

\* the breaker leaves OPEN in this step
LeavesOpen == circuitBreaker.state = "OPEN" /\ circuitBreaker'.state # "OPEN"

\* C25: a timer of an earlier OPEN period never fires a transition in a later
\* one: while the breaker is OPEN, entered at openedAt, the only timer
\* pending is the one due at openedAt + resetTimeout, and the breaker does
\* not leave OPEN before that time
C25_NoStaleTimer ==
    /\ [](circuitBreaker.state = "OPEN" =>
             /\ circuitBreaker.pending = {openedAt + ResetTimeout}
             /\ circuitBreaker.nextAttempt = openedAt + ResetTimeout)
    /\ [][LeavesOpen => now >= openedAt + ResetTimeout]_vars

\* the breaker was closed by a trial, has opened again, and is inside the
\* window of this later OPEN period although the first window has ended
C25_Witness ==
    /\ circuitBreaker.state = "OPEN"
    /\ failsSinceClose >= 0
    /\ now > openedAt
    /\ now < openedAt + ResetTimeout
    /\ openedAt >= ResetTimeout

\* the records of calls that end in this step
Done == {c \in BagToSet(calls) : CopiesIn(c, calls') < CopiesIn(c, calls)}

\* C26: the breaker goes from HALF_OPEN to CLOSED only on the success of a
\* trial call, one admitted while the breaker was HALF_OPEN or that made the
\* transition itself; the late success of a call admitted while the breaker
\* was CLOSED does not close it
C26_OnlyTrialCloses ==
    [][(circuitBreaker.state = "HALF_OPEN"
           /\ circuitBreaker'.state = "CLOSED") =>
          /\ Succeeds
          /\ \A c \in Done : c.admittedIn = "HALF_OPEN"]_vars

\* C28: under any interleaving of calls and timer firings the breaker is
\* CLOSED if and only if failureCount < failureThreshold, so failureCount is
\* at least failureThreshold whenever it is OPEN or HALF_OPEN
C28_ClosedIffBelowThreshold ==
    circuitBreaker.state = "CLOSED"
       <=> circuitBreaker.failureCount < failureThreshold

\* the timer has taken the breaker to HALF_OPEN after more failures than the
\* threshold were recorded, one of them while it was OPEN
C28_Witness ==
    /\ circuitBreaker.state = "HALF_OPEN"
    /\ circuitBreaker.pending = {}
    /\ circuitBreaker.failureCount > failureThreshold
    /\ failsSinceClose < 0

\* C29: a call rejected as circuit-open changes nothing: state, failureCount,
\* nextAttempt and the pending timer are as before, so a rejection is not
\* counted as a failure and the open period still ends resetTimeout after
\* the breaker opened
C29_RejectionChangesNothing ==
    [][Rejected =>
          /\ circuitBreaker' = circuitBreaker
          /\ circuitBreaker'.state = "OPEN"
          /\ circuitBreaker'.nextAttempt = openedAt + ResetTimeout
          /\ circuitBreaker'.pending = {openedAt + ResetTimeout}]_vars

\* two calls have been rejected one after the other in the same open period
C29_Witness ==
    /\ circuitBreaker.state = "OPEN"
    /\ outcome.result = "circuit_open"
    /\ outcome.n >= 3
    /\ started = outcome.n
    /\ now > openedAt
    /\ circuitBreaker.failureCount = 1

\* ------------------------------------------------------------- liveness
\* the event loop runs a timer callback that is due, and time passes (up to
\* the end of the modelled clock); no call has to arrive. The client is the
\* one with a single retry
LiveInit ==
    /\ Init
    /\ maxRetries = 1

LiveSpec ==
    LiveInit /\ [][Next]_vars /\ WF_vars(TimerFire) /\ WF_vars(Tick)

\* C27: an OPEN breaker does not stay OPEN forever: when time advances by
\* resetTimeout it becomes HALF_OPEN, through the scheduled transition even
\* when no call arrives (stated for OPEN periods whose window ends within
\* the modelled clock)
C27_OpenEndsInHalfOpen ==
    (circuitBreaker.state = "OPEN" /\ openedAt + ResetTimeout <= MaxTime)
       ~> circuitBreaker.state = "HALF_OPEN"

\* the timer has taken the breaker to HALF_OPEN and no call arrived since
\* it opened
C27_Witness ==
    /\ circuitBreaker.state = "HALF_OPEN"
    /\ circuitBreaker.pending = {}
    /\ quiet
    /\ ~rejectedSinceOpen
    /\ now >= openedAt + ResetTimeout

\* ----------------------------------------------- health checks and breaker
\* the health service starts a check of the linter in this step
HealthProbes == health'.probes = health.probes + 1
\* the breaker rejects whatever is called now
Rejecting ==
    circuitBreaker.state = "OPEN" /\ now < circuitBreaker.nextAttempt

\* C30 as stated: a health check made while the breaker is OPEN sends no
\* request to the linter and leaves the status 'unhealthy'
C30_OpenCheckNeverProbes ==
    [][(HealthProbes /\ circuitBreaker.state = "OPEN") =>
          /\ ~Sends
          /\ health'.apiLinterStatus = "unhealthy"]_vars

\* C30: health checks and tool calls go through one breaker: a failed health
\* probe adds 1 to the failureCount that tool calls see, the breaker is not
\* CLOSED once failureCount has reached the threshold, a tool call made
\* while the breaker is OPEN and before nextAttempt is rejected as
\* circuit-open, and a check started by forceCheck or a due getHealth while
\* the breaker is OPEN and before nextAttempt sends no request and reports
\* 'unhealthy'
C30_SharedBreaker ==
    /\ [](circuitBreaker.failureCount >= failureThreshold
             => circuitBreaker.state # "CLOSED")
    /\ [][/\ (Fails /\ \E c \in Done : c.origin # "tool") =>
                /\ circuitBreaker'.failureCount =
                      circuitBreaker.failureCount + 1
                /\ HealthReturns
                /\ health'.lastCheck = "error"
                /\ health'.apiLinterStatus = "unhealthy"
          /\ (CallStep /\ ~HealthProbes /\ Rejecting) => Rejected
          /\ (HealthProbes /\ Rejecting) =>
                /\ ~Sends
                /\ calls' = calls
                /\ circuitBreaker' = circuitBreaker
                /\ HealthReturns
                /\ health'.lastCheck = "circuit_open"
                /\ health'.apiLinterStatus = "unhealthy"
                /\ healthOutcome'.call = "getHealth" =>
                      healthOutcome'.status = "unhealthy"]_vars

\* failureThreshold health probes have failed and opened the breaker with no
\* tool call made; then a health check and the first tool call were both
\* rejected
C30_Witness ==
    /\ circuitBreaker.state = "OPEN"
    /\ circuitBreaker.failureCount = failureThreshold
    /\ ~anySucc
    /\ health.probes = failureThreshold + 1
    /\ health.lastCheck = "circuit_open"
    /\ healthOutcome.status = "unhealthy"
    /\ started = health.probes + 1
    /\ outcome.tool = "validateSpec"
    /\ outcome.result = "circuit_open"
    /\ calls = EmptyBag

====
